---- MODULE Spec2Model ----
(***************************************************************************)
(* Model of corineFunctions.py: visualize_corine_land_cover and            *)
(* compute_landcover_area, with the Earth Engine backend, the geemap       *)
(* widget and the pandas table as environment.                             *)
(*                                                                         *)
(* Strings that the code parses or splits are modelled by their parts:     *)
(*   - a histogram key is the sequence of its decimal digits,              *)
(*   - a metadata class name is the sequence of its "; "-separated         *)
(*     segments.                                                           *)
(* Python dicts are sequences of [k, v] entries with distinct keys, in     *)
(* insertion order.  Floats are exact rationals [num, den] in lowest terms *)
(* and the numeric group key of a grouped sum is a fixed-point number with *)
(* KeyScale fractional steps.                                              *)
(***************************************************************************)
EXTENDS Integers, Sequences, FiniteSets, TLC

\* ---------------------------------------------------------------- bounds
MetaLen == 2        \* length of the three parallel metadata lists
MaxHist == 2        \* number of keys of the presence histogram
MaxGroups == 2      \* number of groups of the grouped-sum result

\* ------------------------------------------------------ program constants
HistScale == 100
Zoom == 12
HaDivisor == 10000

\* ------------------------------------------------------------ input sets
Geometries == {"polygon"}
NonGeometries == {"a string", "None"}
Rois == Geometries \cup NonGeometries
Titles == {"CORINE Land Cover Classes"}

ClassIds == 1 .. (MetaLen + 1)
DisplayNames == {<<"Forest">>, <<"Natural", "Forest">>, <<"Water">>}
Palette == {"228B22", "0000FF"}
HistKeys == {<<d>> : d \in ClassIds} \cup {<<0, 1>>}
PixelCounts == {120}

KeyScale == 2       \* fixed-point steps per unit of a numeric group key
GroupKeys == {KeyScale, 2 * KeyScale, 2 * KeyScale + 1}
Sums == {500000, 125000, 1}
ClassMappings == {<<>>, 1 :> "Forest", 2 :> "Water", 1 :> "Forest" @@ 2 :> "Water"}
Scales == {100, 1000}
MaxPixelsArgs == {100000000, 1000}
Images == {"corine_clipped"}

\* ------------------------------------------------------- python helpers
NoValue == "None"

SeqsUpTo(S, n) == UNION {[1 .. k -> S] : k \in 0 .. n}

Injective(s) == \A i, j \in DOMAIN s : s[i] = s[j] => i = j

\* int(k) of a decimal string, most significant digit first
RECURSIVE ParseInt(_)
ParseInt(digits) ==
    IF digits = <<>> THEN 0
    ELSE 10 * ParseInt(SubSeq(digits, 1, Len(digits) - 1)) + digits[Len(digits)]

\* int(x) of a non-negative number: truncation
TruncInt(x) == x \div KeyScale

\* name.split("; ")[-1]
LastSegment(name) == name[Len(name)]

\* f"#{colour}"
HashColour(colour) == "#" \o colour

\* list.index(x) that falls back to the first position instead of raising
ListIndex_Default(list, x) ==
    IF \E i \in DOMAIN list : list[i] = x
    THEN CHOOSE i \in DOMAIN list :
            list[i] = x /\ \A j \in DOMAIN list : list[j] = x => i <= j
    ELSE 1

\* list.index(x): the first position, 0 when the code raises ValueError
ListIndex(list, x) ==
    IF \E i \in DOMAIN list : list[i] = x
    THEN CHOOSE i \in DOMAIN list :
            list[i] = x /\ \A j \in DOMAIN list : list[j] = x => i <= j
    ELSE 0

DictKeys(d) == {d[i].k : i \in DOMAIN d}

DictGet(d, key) == d[CHOOSE i \in DOMAIN d : d[i].k = key].v

\* d[key] = val: an existing key keeps its position
DictSet(d, key, val) ==
    IF key \in DictKeys(d)
    THEN [i \in DOMAIN d |-> IF d[i].k = key THEN [k |-> key, v |-> val] ELSE d[i]]
    ELSE Append(d, [k |-> key, v |-> val])

Histograms == {h \in SeqsUpTo([k : HistKeys, v : PixelCounts], MaxHist) :
                  \A i, j \in DOMAIN h : h[i].k = h[j].k => i = j}

\* the comprehension of line 48 losing the first key of the histogram
RECURSIVE FilteredClasses_SkipFirst(_)
FilteredClasses_SkipFirst(present) ==
    IF Len(present) <= 1 THEN <<>>
    ELSE LET n == Len(present)
         IN  DictSet(FilteredClasses_SkipFirst(SubSeq(present, 1, n - 1)),
                     ParseInt(present[n].k), present[n].v)

\* {int(k): present_classes[k] for k in present_classes}
RECURSIVE FilteredClasses(_)
FilteredClasses(present) ==
    IF present = <<>> THEN <<>>
    ELSE LET n == Len(present)
         IN  DictSet(FilteredClasses(SubSeq(present, 1, n - 1)),
                     ParseInt(present[n].k), present[n].v)

\* filtered_class_names, lines 49-51
FilteredNames(names, values, filtered) ==
    [n \in DOMAIN filtered |-> LastSegment(names[ListIndex(values, filtered[n].k)])]

\* filtered_class_palette, lines 52-54
FilteredPalette(palette, values, filtered) ==
    [n \in DOMAIN filtered |-> palette[ListIndex(values, filtered[n].k)]]

\* {names[i]: f"#{palette[i]}" for i in range(len(names))}
RECURSIVE LegendDict(_, _)
LegendDict(names, palette) ==
    IF names = <<>> THEN <<>>
    ELSE LET n == Len(names)
         IN  DictSet(LegendDict(SubSeq(names, 1, n - 1), SubSeq(palette, 1, n - 1)),
                     names[n], HashColour(palette[n]))

RECURSIVE GCD(_, _)
GCD(a, b) == IF b = 0 THEN a ELSE GCD(b, a % b)

\* a conversion by the wrong factor (square metres per hectare taken as 1000)
ToHectares_WrongFactor(area_m2) ==
    LET g == GCD(area_m2, 1000)
    IN  [num |-> area_m2 \div g, den |-> 1000 \div g]

\* area_m2 / 10000 as an exact fraction in lowest terms
ToHectares(area_m2) ==
    LET g == GCD(area_m2, HaDivisor)
    IN  [num |-> area_m2 \div g, den |-> HaDivisor \div g]

\* class_mapping.get(key) with no default
MappingGet_NoDefault(mapping, key) ==
    IF key \in DOMAIN mapping THEN mapping[key] ELSE NoValue

\* class_mapping.get(key, "Unknown")
MappingGet(mapping, key) ==
    IF key \in DOMAIN mapping THEN mapping[key] ELSE "Unknown"

\* the row appended for one group, lines 118-128
Row(group, mapping) ==
    LET landcover_class == TruncInt(group.group)
    IN  [Class |-> landcover_class,
         ClassName |-> MappingGet(mapping, landcover_class),
         Area |-> ToHectares(group.sum)]

\* rows collected in reverse of the backend's order
BuildData_Reversed(grps, mapping) ==
    [n \in DOMAIN grps |-> Row(grps[Len(grps) + 1 - n], mapping)]

\* data after the loop of lines 117-128
BuildData(grps, mapping) ==
    [n \in DOMAIN grps |-> Row(grps[n], mapping)]

\* the keys of the row dict of lines 124-128
RowKeys == {"Class", "Class Name", "Area (ha)"}

\* pd.DataFrame(data) of a list of dicts: the columns are the keys of the rows
DataFrame(rows) ==
    [columns |-> IF rows = <<>> THEN {} ELSE RowKeys,
     rows |-> rows]

\* what the loop prints when verbose
PrintedLines(rows) ==
    <<[line |-> "Landcover area in hectares:", Class |-> 0]>> \o
    [n \in DOMAIN rows |-> [line |-> "class", Class |-> rows[n].Class]]

Req(op, arg) == [op |-> op, arg |-> arg]

\* ------------------------------------------------------------------ state
VARIABLES
    call,                   \* the operation called
    pc,                     \* position in the running call
    raised,                 \* the exception leaving the call, "none" if none
    result,                 \* the returned value
    requests,               \* backend interface calls, in order of issue
    roi, map_title,         \* arguments of the visualizer
    class_names, class_values, class_palette,
    present_classes,
    filtered_classes, filtered_class_names, filtered_class_palette,
    m,                      \* the geemap.Map widget
    i,                      \* index of the layer loop
    corine_clipped, class_mapping, scale, maxPixels, verbose,
    groups, data, df,
    console                 \* printed lines

ctlVars == <<call, pc, raised, result, requests>>

visVars == <<map_title, class_names, class_values, class_palette,
             present_classes, filtered_classes, filtered_class_names,
             filtered_class_palette, m, i>>

tabVars == <<corine_clipped, class_mapping, scale, maxPixels, verbose,
             groups, data, df, console>>

vars == <<ctlVars, roi, visVars, tabVars>>

NoMap == [created |-> FALSE, layers |-> <<>>, hasLegend |-> FALSE,
          legend_title |-> NoValue, legend_dict |-> <<>>,
          center |-> NoValue, zoom |-> 0]

NoResult == [kind |-> "none"]

NoTable == [columns |-> {}, rows |-> <<>>]

Init ==
    /\ call = "none"
    /\ pc = "idle"
    /\ raised = "none"
    /\ result = NoResult
    /\ requests = <<>>
    /\ roi = NoValue
    /\ map_title = NoValue
    /\ class_names = <<>>
    /\ class_values = <<>>
    /\ class_palette = <<>>
    /\ present_classes = <<>>
    /\ filtered_classes = <<>>
    /\ filtered_class_names = <<>>
    /\ filtered_class_palette = <<>>
    /\ m = NoMap
    /\ i = 0
    /\ corine_clipped = NoValue
    /\ class_mapping = <<>>
    /\ scale = 0
    /\ maxPixels = 0
    /\ verbose = FALSE
    /\ groups = <<>>
    /\ data = <<>>
    /\ df = NoTable
    /\ console = <<>>

\* an exception leaves the call
Raise(err) ==
    /\ pc' = "raised"
    /\ raised' = err

\* a failed round trip that is swallowed and issued again
BackendFails_Retry(req) ==
    /\ requests' = Append(requests, req)
    /\ pc' = pc
    /\ UNCHANGED raised

\* a backend round trip fails
BackendFails(req) ==
    /\ requests' = Append(requests, req)
    /\ Raise("BackendError")

\* a backend round trip answers
BackendAnswers(req, next) ==
    /\ requests' = Append(requests, req)
    /\ pc' = next
    /\ UNCHANGED raised

\* ------------------------------------------- visualize_corine_land_cover
CallVisualize ==
    /\ pc = "idle"
    /\ \E r \in Rois, t \in Titles :
          /\ roi' = r
          /\ map_title' = t
    /\ call' = "visualize"
    /\ pc' = "v_check"
    /\ UNCHANGED <<raised, result, requests, class_names, class_values,
                   class_palette, present_classes, filtered_classes,
                   filtered_class_names, filtered_class_palette, m, i, tabVars>>

\* lines 27-32 without the isinstance check
VCheck_NoTypeCheck ==
    /\ pc = "v_check"
    /\ requests' = requests \o <<Req("image", 0), Req("clip", 0)>>
    /\ pc' = "v_names"
    /\ UNCHANGED <<call, raised, result, roi, visVars, tabVars>>

\* lines 27-32
VCheck ==
    /\ pc = "v_check"
    /\ IF roi \notin Geometries
       THEN /\ Raise("TypeError")
            /\ UNCHANGED requests
       ELSE /\ requests' = requests \o <<Req("image", 0), Req("clip", 0)>>
            /\ pc' = "v_names"
            /\ UNCHANGED raised
    /\ UNCHANGED <<call, result, roi, visVars, tabVars>>

\* line 35
VGetNames ==
    /\ pc = "v_names"
    /\ \/ /\ BackendFails(Req("landcover_class_names", 0))
          /\ UNCHANGED class_names
       \/ /\ BackendAnswers(Req("landcover_class_names", 0), "v_values")
          /\ class_names' \in [1 .. MetaLen -> DisplayNames]
    /\ UNCHANGED <<call, result, roi, map_title, class_values, class_palette,
                   present_classes, filtered_classes, filtered_class_names,
                   filtered_class_palette, m, i, tabVars>>

\* line 36
VGetValues ==
    /\ pc = "v_values"
    /\ \/ /\ BackendFails(Req("landcover_class_values", 0))
          /\ UNCHANGED class_values
       \/ /\ BackendAnswers(Req("landcover_class_values", 0), "v_palette")
          /\ class_values' \in {s \in [1 .. MetaLen -> ClassIds] : Injective(s)}
    /\ UNCHANGED <<call, result, roi, map_title, class_names, class_palette,
                   present_classes, filtered_classes, filtered_class_names,
                   filtered_class_palette, m, i, tabVars>>

\* line 37
VGetPalette ==
    /\ pc = "v_palette"
    /\ \/ /\ BackendFails(Req("landcover_class_palette", 0))
          /\ UNCHANGED class_palette
       \/ /\ BackendAnswers(Req("landcover_class_palette", 0), "v_histogram")
          /\ class_palette' \in [1 .. MetaLen -> Palette]
    /\ UNCHANGED <<call, result, roi, map_title, class_names, class_values,
                   present_classes, filtered_classes, filtered_class_names,
                   filtered_class_palette, m, i, tabVars>>

\* lines 40-45
VHistogram ==
    /\ pc = "v_histogram"
    /\ \/ /\ BackendFails(Req("frequencyHistogram", HistScale))
          /\ UNCHANGED present_classes
       \/ /\ BackendAnswers(Req("frequencyHistogram", HistScale), "v_filter")
          /\ present_classes' \in Histograms
    /\ UNCHANGED <<call, result, roi, map_title, class_names, class_values,
                   class_palette, filtered_classes, filtered_class_names,
                   filtered_class_palette, m, i, tabVars>>

\* lines 48-54
VFilter ==
    /\ pc = "v_filter"
    /\ LET filtered == FilteredClasses(present_classes)
       IN  /\ filtered_classes' = filtered
           /\ IF \E n \in DOMAIN filtered : ListIndex(class_values, filtered[n].k) = 0
              THEN /\ Raise("ValueError")
                   /\ UNCHANGED <<filtered_class_names, filtered_class_palette>>
              ELSE /\ filtered_class_names' =
                          FilteredNames(class_names, class_values, filtered)
                   /\ filtered_class_palette' =
                          FilteredPalette(class_palette, class_values, filtered)
                   /\ pc' = "v_map"
                   /\ UNCHANGED raised
    /\ UNCHANGED <<call, result, requests, roi, map_title, class_names,
                   class_values, class_palette, present_classes, m, i, tabVars>>

\* line 57
VCreateMap ==
    /\ pc = "v_map"
    /\ m' = [NoMap EXCEPT !.created = TRUE]
    /\ i' = 1
    /\ pc' = "v_layers"
    /\ UNCHANGED <<call, raised, result, requests, roi, map_title, class_names,
                   class_values, class_palette, present_classes,
                   filtered_classes, filtered_class_names,
                   filtered_class_palette, tabVars>>

\* lines 60-66, one iteration
VAddLayer ==
    /\ pc = "v_layers"
    /\ i <= Len(filtered_classes)
    /\ LET class_value == filtered_classes[i].k
       IN  \/ /\ BackendFails(Req("mask", class_value))
              /\ UNCHANGED <<m, i>>
           \/ /\ BackendAnswers(Req("mask", class_value), "v_layers")
              /\ m' = [m EXCEPT !.layers = Append(@,
                          [class_value |-> class_value,
                           palette |-> <<HashColour(filtered_class_palette[i])>>,
                           name |-> filtered_class_names[i]])]
              /\ i' = i + 1
    /\ UNCHANGED <<call, result, roi, map_title, class_names, class_values,
                   class_palette, present_classes, filtered_classes,
                   filtered_class_names, filtered_class_palette, tabVars>>

\* lines 69-72
VLegend ==
    /\ pc = "v_layers"
    /\ i > Len(filtered_classes)
    /\ m' = [m EXCEPT !.hasLegend = TRUE,
                      !.legend_title = map_title,
                      !.legend_dict = LegendDict(filtered_class_names,
                                                 filtered_class_palette)]
    /\ pc' = "v_center"
    /\ UNCHANGED <<call, raised, result, requests, roi, map_title, class_names,
                   class_values, class_palette, present_classes,
                   filtered_classes, filtered_class_names,
                   filtered_class_palette, i, tabVars>>

\* line 75 left out: the viewport is never centred
VCenter_Skipped ==
    /\ pc = "v_center"
    /\ pc' = "v_return"
    /\ UNCHANGED <<call, raised, result, requests, roi, visVars, tabVars>>

\* line 75
VCenter ==
    /\ pc = "v_center"
    /\ m' = [m EXCEPT !.center = roi, !.zoom = Zoom]
    /\ pc' = "v_return"
    /\ UNCHANGED <<call, raised, result, requests, roi, map_title, class_names,
                   class_values, class_palette, present_classes,
                   filtered_classes, filtered_class_names,
                   filtered_class_palette, i, tabVars>>

\* line 77
VReturn ==
    /\ pc = "v_return"
    /\ result' = [kind |-> "map", map |-> m]
    /\ pc' = "returned"
    /\ UNCHANGED <<call, raised, requests, roi, visVars, tabVars>>

\* ------------------------------------------------ compute_landcover_area
CallCompute ==
    /\ pc = "idle"
    /\ corine_clipped' \in Images
    /\ roi' \in Geometries
    /\ class_mapping' \in ClassMappings
    /\ scale' \in Scales
    /\ maxPixels' \in MaxPixelsArgs
    /\ verbose' \in BOOLEAN
    /\ call' = "compute"
    /\ pc' = "c_build"
    /\ UNCHANGED <<raised, result, requests, visVars, groups, data, df, console>>

\* lines 96-108
CBuild ==
    /\ pc = "c_build"
    /\ requests' = requests \o
          <<Req("pixelArea", 0), Req("addBands", 0), Req("reduceRegion", scale)>>
    /\ pc' = "c_groups"
    /\ UNCHANGED <<call, raised, result, roi, visVars, tabVars>>

\* line 111
CGetGroups ==
    /\ pc = "c_groups"
    /\ \/ /\ BackendFails(Req("groups", 0))
          /\ UNCHANGED groups
       \/ /\ BackendAnswers(Req("groups", 0), "c_loop")
          /\ groups' \in SeqsUpTo([group : GroupKeys, sum : Sums], MaxGroups)
    /\ UNCHANGED <<call, result, roi, visVars, corine_clipped, class_mapping,
                   scale, maxPixels, verbose, data, df, console>>

\* lines 114-128
CLoop ==
    /\ pc = "c_loop"
    /\ data' = BuildData(groups, class_mapping)
    /\ console' = IF verbose THEN console \o PrintedLines(data') ELSE console
    /\ pc' = "c_frame"
    /\ UNCHANGED <<call, raised, result, requests, roi, visVars, corine_clipped,
                   class_mapping, scale, maxPixels, verbose, groups, df>>

\* lines 131-134
CFrame ==
    /\ pc = "c_frame"
    /\ df' = DataFrame(data)
    /\ console' = IF verbose
                  THEN console \o <<[line |-> "Pandas DataFrame:", Class |-> 0],
                                    [line |-> "df", Class |-> Len(data)]>>
                  ELSE console
    /\ pc' = "c_return"
    /\ UNCHANGED <<call, raised, result, requests, roi, visVars, corine_clipped,
                   class_mapping, scale, maxPixels, verbose, groups, data>>

\* line 136
CReturn ==
    /\ pc = "c_return"
    /\ result' = [kind |-> "table", table |-> df]
    /\ pc' = "returned"
    /\ UNCHANGED <<call, raised, requests, roi, visVars, tabVars>>

Next ==
    \/ CallVisualize
    \/ VCheck
    \/ VGetNames
    \/ VGetValues
    \/ VGetPalette
    \/ VHistogram
    \/ VFilter
    \/ VCreateMap
    \/ VAddLayer
    \/ VLegend
    \/ VCenter
    \/ VReturn
    \/ CallCompute
    \/ CBuild
    \/ CGetGroups
    \/ CLoop
    \/ CFrame
    \/ CReturn

Spec == Init /\ [][Next]_vars

\* ------------------------------------------------------------ properties
Range(s) == {s[n] : n \in DOMAIN s}

RequestOps == {requests[n].op : n \in DOMAIN requests}

\* the histogram request of the running visualizer call was answered
HistogramReceived ==
    /\ call = "visualize"
    /\ \E n \in DOMAIN requests :
          /\ requests[n].op = "frequencyHistogram"
          /\ ~(raised = "BackendError" /\ n = Len(requests))

\* the call has left lines 47-54
PastFilter == HistogramReceived /\ pc # "v_filter"

VisualizeReturned == call = "visualize" /\ pc = "returned"

ComputeReturned == call = "compute" /\ pc = "returned"

\* the histogram keys, each read as an integer
HistogramClasses == {ParseInt(present_classes[n].k) : n \in DOMAIN present_classes}

\* the class identifiers of the layers added to a widget
LayerClasses(widget) == {widget.layers[n].class_value : n \in DOMAIN widget.layers}

\* C1: a roi that is not a geometry makes visualize_corine_land_cover raise
\* TypeError with no backend call issued and no map widget created.
C1_NonGeometryRaisesFirst ==
    (call = "visualize" /\ roi \notin Geometries /\ pc # "v_check") =>
        /\ pc = "raised"
        /\ raised = "TypeError"
        /\ requests = <<>>
        /\ m = NoMap
        /\ result = NoResult

C1_Witness ==
    call = "visualize" /\ roi \in NonGeometries /\ raised = "TypeError"

\* C2 (as stated): once the histogram is received and the call has ended, the
\* classes with a layer are exactly the histogram's keys read as integers.
C2_Original ==
    (HistogramReceived /\ pc \in {"returned", "raised"}) =>
        LayerClasses(m) = HistogramClasses

\* C2 (amended): when visualize_corine_land_cover returns a map widget, the
\* classes with a layer in it are exactly the histogram's keys read as
\* integers, one layer per class.
C2_LayersMatchHistogramOnReturn ==
    VisualizeReturned =>
        /\ result.kind = "map"
        /\ LayerClasses(result.map) = HistogramClasses
        /\ Len(result.map.layers) = Cardinality(HistogramClasses)
        /\ \A n \in DOMAIN result.map.layers :
              Req("mask", result.map.layers[n].class_value) \in Range(requests)

C2_Witness ==
    /\ VisualizeReturned
    /\ Len(result.map.layers) = 2
    /\ LayerClasses(result.map) = HistogramClasses

\* C3: after the visualizer returns, for every class of the histogram the
\* legend entry under the class's display name carries the palette colour at
\* the class's index in the metadata value list.
C3_LegendColourMatchesPalette ==
    VisualizeReturned =>
        \A n \in DOMAIN present_classes :
            LET idx == ListIndex(class_values, ParseInt(present_classes[n].k))
                name == LastSegment(class_names[idx])
                legend == result.map.legend_dict
            IN  /\ name \in DictKeys(legend)
                /\ DictGet(legend, name) = HashColour(class_palette[idx])

\* C4: with an empty histogram the visualizer raises nothing, issues no layer
\* request and returns a widget with no layer, an empty legend and the
\* viewport centred on the roi.
C4_EmptyHistogram ==
    (HistogramReceived /\ present_classes = <<>>) =>
        /\ raised = "none"
        /\ pc # "raised"
        /\ "mask" \notin RequestOps
        /\ m.layers = <<>>
        /\ pc = "returned" =>
              /\ result = [kind |-> "map", map |-> m]
              /\ m.created
              /\ m.hasLegend
              /\ m.legend_dict = <<>>
              /\ m.center = roi
              /\ m.zoom = 12

C4_Witness ==
    VisualizeReturned /\ HistogramReceived /\ present_classes = <<>>

\* C5: the returned table has one row per group, in the backend's order, and
\* the Class of each row is the integer part of that group's key.
C5_RowsFollowGroups ==
    ComputeReturned =>
        /\ result.kind = "table"
        /\ Len(result.table.rows) = Len(groups)
        /\ \A n \in DOMAIN groups :
              LET c == result.table.rows[n].Class
              IN  /\ c * KeyScale <= groups[n].group
                  /\ groups[n].group < (c + 1) * KeyScale

C5_Witness ==
    /\ ComputeReturned
    /\ Len(groups) = 2
    /\ result.table.rows[1].Class > result.table.rows[2].Class

\* C6: the Area (ha) of each row is the group's sum divided by 10,000,
\* whatever scale, maxPixels and verbose are.
C6_AreaIsSumOver10000 ==
    ComputeReturned =>
        \A n \in DOMAIN groups :
            LET a == result.table.rows[n].Area
            IN  /\ a.den > 0
                /\ a.num * 10000 = groups[n].sum * a.den
                /\ groups[n].sum = 500000 => a = [num |-> 50, den |-> 1]
                /\ groups[n].sum = 125000 => a = [num |-> 25, den |-> 2]

C6_Witness ==
    /\ ComputeReturned
    /\ scale = 1000 /\ maxPixels = 1000 /\ ~verbose
    /\ Len(groups) = 2
    /\ result.table.rows[1].Area = [num |-> 50, den |-> 1]
    /\ result.table.rows[2].Area = [num |-> 25, den |-> 2]

\* C7: a row's Class Name is the mapped name when the class is in
\* class_mapping and "Unknown" when it is not, and the call never changes
\* class_mapping.
C7_ClassNames ==
    /\ [](ComputeReturned =>
            \A n \in DOMAIN result.table.rows :
                LET r == result.table.rows[n]
                IN  IF r.Class \in DOMAIN class_mapping
                    THEN r.ClassName = class_mapping[r.Class]
                    ELSE r.ClassName = "Unknown")
    /\ [][call = "compute" => class_mapping' = class_mapping]_vars

C7_Witness ==
    /\ ComputeReturned
    /\ Len(groups) = 2
    /\ result.table.rows[1].ClassName = "Forest"
    /\ result.table.rows[2].ClassName = "Unknown"
    /\ result.table.rows[2].Class \notin DOMAIN class_mapping

\* C8: the returned table has the columns Class, Class Name and Area (ha)
\* for every grouped-sum result, one with zero groups included.
C8_TableColumns ==
    ComputeReturned =>
        result.table.columns = {"Class", "Class Name", "Area (ha)"}

\* C9: a failed backend request ends the call at once: no request is issued
\* twice, nothing is issued after the failure and nothing is returned.
C9_FailureAborts ==
    /\ [](\A a, b \in DOMAIN requests : requests[a] = requests[b] => a = b)
    /\ [](raised = "BackendError" =>
            /\ pc = "raised"
            /\ result = NoResult
            /\ requests # <<>>
            /\ requests[Len(requests)].op \in
                  {"landcover_class_names", "landcover_class_values",
                   "landcover_class_palette", "frequencyHistogram", "mask",
                   "groups"})
    /\ [][raised # "none" => UNCHANGED vars]_vars

C9_Witness ==
    /\ raised = "BackendError"
    /\ requests[Len(requests)].op \in {"frequencyHistogram", "groups"}

\* C10: a histogram class missing from the metadata value list makes the
\* visualizer raise ValueError before the map widget exists: no layer
\* request, no layer and no legend for any class of that histogram.
C10_LookupFailureBeforeMap ==
    (PastFilter /\ ~(HistogramClasses \subseteq Range(class_values))) =>
        /\ pc = "raised"
        /\ raised = "ValueError"
        /\ m = NoMap
        /\ result = NoResult
        /\ "mask" \notin RequestOps

C10_Witness ==
    /\ PastFilter
    /\ raised = "ValueError"
    /\ Len(present_classes) = 2
    /\ \E n \in DOMAIN present_classes :
          ParseInt(present_classes[n].k) \in Range(class_values)
====
